---- MODULE Spec2Model ----
(***************************************************************************)
(* Model of process_stereo_pairs.py: pairing of timestamp-matched images   *)
(* of two camera-stream directories and the per-pair inference loop.       *)
(*                                                                         *)
(* File names are sequences of one-character strings, so that the glob     *)
(* pattern, the split at the first underscore and Python's string order    *)
(* are computed character by character.                                    *)
(***************************************************************************)
EXTENDS Integers, Sequences, FiniteSets, TLC

(* ---------------------------------------------------------------------- *)
(* Bounds                                                                  *)
(* ---------------------------------------------------------------------- *)
\* largest number of directory entries in one stream directory
MaxFiles == 2

(* ---------------------------------------------------------------------- *)
(* Strings                                                                 *)
(* ---------------------------------------------------------------------- *)
\* ord() of the characters that occur in the modelled file names
Code(c) ==
  CASE c = "." -> 46
    [] c = "0" -> 48
    [] c = "1" -> 49
    [] c = "2" -> 50
    [] c = "_" -> 95
    [] c = "a" -> 97
    [] c = "b" -> 98
    [] c = "d" -> 100
    [] c = "e" -> 101
    [] c = "g" -> 103
    [] c = "i" -> 105
    [] c = "j" -> 106
    [] c = "n" -> 110
    [] c = "o" -> 111
    [] c = "p" -> 112
    [] c = "r" -> 114
    [] c = "s" -> 115
    [] c = "t" -> 116
    [] c = "u" -> 117

\* the fixed part of the glob pattern "*_undistorted.jpg"
Suffix == <<"_", "u", "n", "d", "i", "s", "t", "o", "r", "t", "e", "d", ".", "j", "p", "g">>

\* the same stem with another extension: not matched by the pattern
PngSuffix == <<"_", "u", "n", "d", "i", "s", "t", "o", "r", "t", "e", "d", ".", "p", "n", "g">>

\* the prefix of the per-pair output directory name, f"pair_{timestamp}"
PairPrefix == <<"p", "a", "i", "r", "_">>

\* directory entries a stream directory can hold
Names ==
  { <<"1", "0">> \o Suffix,            \* 10_undistorted.jpg
    <<"2">> \o Suffix,                 \* 2_undistorted.jpg
    <<"2", "_", "b">> \o Suffix,       \* 2_b_undistorted.jpg  (key "2" again)
    Suffix,                            \* _undistorted.jpg     (empty key)
    <<"1", "0">> \o PngSuffix }        \* 10_undistorted.png   (not matched)

\* variant of StrLT: compares as numbers do, the shorter digit string first
StrLT_numeric(a, b) ==
  IF Len(a) # Len(b) THEN Len(a) < Len(b)
  ELSE \E p \in 1..Len(a) :
         /\ \A q \in 1..(p - 1) : a[q] = b[q]
         /\ Code(a[p]) < Code(b[p])

\* str.__lt__: comparison by code point, a proper prefix is smaller
RECURSIVE StrLT(_, _)
StrLT(a, b) ==
  IF b = <<>> THEN FALSE
  ELSE IF a = <<>> THEN TRUE
  ELSE IF Head(a) = Head(b) THEN StrLT(Tail(a), Tail(b))
  ELSE Code(Head(a)) < Code(Head(b))

\* sorted(S) for a set of strings
RECURSIVE Sorted(_)
Sorted(S) ==
  IF S = {} THEN <<>>
  ELSE LET m == CHOOSE x \in S : \A y \in S : x = y \/ StrLT(x, y)
       IN  <<m>> \o Sorted(S \ {m})

\* variant of get_timestamp_from_filename: filename.rsplit("_", 1)[0]
get_timestamp_rsplit(filename) ==
  LET us == { p \in 1..Len(filename) : filename[p] = "_" }
  IN  IF us = {} THEN filename
      ELSE SubSeq(filename, 1, (CHOOSE p \in us : \A q \in us : q <= p) - 1)

\* filename.split("_")[0]
RECURSIVE get_timestamp_from_filename(_)
get_timestamp_from_filename(filename) ==
  IF filename = <<>> THEN <<>>
  ELSE IF Head(filename) = "_" THEN <<>>
  ELSE <<Head(filename)>> \o get_timestamp_from_filename(Tail(filename))

\* fnmatch of a name against "*_undistorted.jpg"
GlobMatch(name) ==
  /\ Len(name) >= Len(Suffix)
  /\ SubSeq(name, Len(name) - Len(Suffix) + 1, Len(name)) = Suffix

\* dir.glob("*_undistorted.jpg") for a directory enumerated in the order
\* `listing`: the matching entries, as paths, in enumeration order
glob(dirname, listing) ==
  LET Path(n) == [dir |-> dirname, name |-> n]
  IN  [j \in 1..Len(SelectSeq(listing, GlobMatch)) |->
         Path(SelectSeq(listing, GlobMatch)[j])]

\* { get_timestamp_from_filename(f.name): f for f in files }: a later file
\* replaces an earlier one with the same key
RECURSIVE DictOf(_)
DictOf(files) ==
  IF files = <<>> THEN <<>>
  ELSE LET f == files[Len(files)]
           rest == DictOf(SubSeq(files, 1, Len(files) - 1))
       IN  (get_timestamp_from_filename(f.name) :> f) @@ rest

\* sorted(set(stream1_images.keys()) & set(stream2_images.keys()))
common_timestamps(stream1_images, stream2_images) ==
  Sorted(DOMAIN stream1_images \cap DOMAIN stream2_images)

\* variant of find_stereo_pairs: the common timestamps are not sorted but
\* taken in the enumeration order of the first directory
find_stereo_pairs_unsorted(listing1, listing2) ==
  LET files1 == glob("stream_1201-1", listing1)
      stream2_images == DictOf(glob("stream_1201-2", listing2))
      InBoth(f) == get_timestamp_from_filename(f.name) \in DOMAIN stream2_images
      common == SelectSeq(files1, InBoth)
  IN  [j \in 1..Len(common) |->
         <<common[j], stream2_images[get_timestamp_from_filename(common[j].name)]>>]

\* find_stereo_pairs, for the enumeration orders of the two directories
find_stereo_pairs(listing1, listing2) ==
  LET stream1_images == DictOf(glob("stream_1201-1", listing1))
      stream2_images == DictOf(glob("stream_1201-2", listing2))
      common == common_timestamps(stream1_images, stream2_images)
  IN  [j \in 1..Len(common) |-> <<stream1_images[common[j]], stream2_images[common[j]]>>]

\* variant of pair_output_dir: the timestamp is left out of the name
pair_output_dir_fixed(left_path) ==
  [parent |-> "output_dir", name |-> PairPrefix]

\* output_dir / f"pair_{timestamp}"
pair_output_dir(left_path) ==
  [parent |-> "output_dir", name |-> PairPrefix \o get_timestamp_from_filename(left_path.name)]

\* the orders in which a directory of entries S can be enumerated
Listings(S) ==
  { s \in [1..Cardinality(S) -> S] : \A a, b \in 1..Cardinality(S) : s[a] = s[b] => a = b }

(* ---------------------------------------------------------------------- *)
(* State                                                                   *)
(* ---------------------------------------------------------------------- *)
VARIABLES
  stream1_exists,   \* data_dir/stream_1201-1 exists
  stream2_exists,   \* data_dir/stream_1201-2 exists
  dir1,             \* entries of stream_1201-1
  dir2,             \* entries of stream_1201-2
  outRoot,          \* output_dir on disk: "absent", "dir" or "file"
  pc,               \* position in process_stereo_pairs
  pairs,            \* the list returned by find_stereo_pairs
  i,                \* position of the for loop in pairs
  calls,            \* the model.inference invocations made, in order
  log,              \* the calls made so far and how inference ended, in order
  error             \* the exception that ended the run, or "none"

vars == <<stream1_exists, stream2_exists, dir1, dir2, outRoot, pc, pairs, i, calls, log, error>>

fs == <<stream1_exists, stream2_exists, dir1, dir2>>

Dirs == { S \in SUBSET Names : Cardinality(S) <= MaxFiles }

Init ==
  /\ stream1_exists \in BOOLEAN
  /\ stream2_exists \in BOOLEAN
  /\ dir1 \in IF stream1_exists THEN Dirs ELSE {{}}
  /\ dir2 \in IF stream2_exists THEN Dirs ELSE {{}}
  /\ outRoot \in {"absent", "dir", "file"}
  /\ pc = "check1"
  /\ pairs = <<>>
  /\ i = 1
  /\ calls = <<>>
  /\ log = <<>>
  /\ error = "none"

Raise(e) ==
  /\ pc' = "error"
  /\ error' = e

(* ---------------------------------------------------------------------- *)
(* process_stereo_pairs, one action per statement                          *)
(* ---------------------------------------------------------------------- *)
\* variant of CheckStream1: tests the stream-2 directory
CheckStream1_wrong_dir ==
  /\ pc = "check1"
  /\ log' = Append(log, "exists1")
  /\ IF ~stream2_exists
       THEN Raise("Stream2NotFound")
       ELSE pc' = "check2" /\ error' = error
  /\ UNCHANGED <<fs, outRoot, pairs, i, calls>>

\* if not stream1_dir.exists(): raise FileNotFoundError
CheckStream1 ==
  /\ pc = "check1"
  /\ log' = Append(log, "exists1")
  /\ IF ~stream1_exists
       THEN Raise("Stream1NotFound")
       ELSE pc' = "check2" /\ error' = error
  /\ UNCHANGED <<fs, outRoot, pairs, i, calls>>

\* if not stream2_dir.exists(): raise FileNotFoundError
CheckStream2 ==
  /\ pc = "check2"
  /\ log' = Append(log, "exists2")
  /\ IF ~stream2_exists
       THEN Raise("Stream2NotFound")
       ELSE pc' = "find" /\ error' = error
  /\ UNCHANGED <<fs, outRoot, pairs, i, calls>>

\* pairs = find_stereo_pairs(stream1_dir, stream2_dir)
FindPairs ==
  /\ pc = "find"
  /\ \E listing1 \in Listings(dir1), listing2 \in Listings(dir2) :
       pairs' = find_stereo_pairs(listing1, listing2)
  /\ log' = Append(log, "find_stereo_pairs")
  /\ pc' = "checkpairs"
  /\ UNCHANGED <<fs, outRoot, i, calls, error>>

\* variant of CheckPairs: no early return
CheckPairs_no_return ==
  /\ pc = "checkpairs"
  /\ pc' = "load"
  /\ UNCHANGED <<fs, outRoot, pairs, i, calls, log, error>>

\* variant of CheckPairs: the output root is created before the model is loaded
CheckPairs_mkdir_first ==
  /\ pc = "checkpairs"
  /\ IF pairs = <<>>
       THEN pc' = "done" /\ UNCHANGED <<outRoot, log>>
       ELSE /\ pc' = "load"
            /\ outRoot' = IF outRoot = "absent" THEN "dir" ELSE outRoot
            /\ log' = Append(log, "mkdir")
  /\ UNCHANGED <<fs, pairs, i, calls, error>>

\* if not pairs: return
CheckPairs ==
  /\ pc = "checkpairs"
  /\ pc' = IF pairs = <<>> THEN "done" ELSE "load"
  /\ UNCHANGED <<fs, outRoot, pairs, i, calls, log, error>>

\* model = DepthAnything3.from_pretrained(model_dir)
LoadModel ==
  /\ pc = "load"
  /\ log' = Append(log, "from_pretrained")
  /\ \E ok \in BOOLEAN :
       IF ok THEN pc' = "to" /\ error' = error
             ELSE Raise("ModelLoadError")
  /\ UNCHANGED <<fs, outRoot, pairs, i, calls>>

\* model = model.to(device=device)
ToDevice ==
  /\ pc = "to"
  /\ log' = Append(log, "to")
  /\ \E ok \in BOOLEAN :
       IF ok THEN pc' = "mkdir" /\ error' = error
             ELSE Raise("DeviceError")
  /\ UNCHANGED <<fs, outRoot, pairs, i, calls>>

\* output_dir.mkdir(parents=True, exist_ok=True)
MkdirOutput ==
  /\ pc = "mkdir"
  /\ log' = Append(log, "mkdir")
  /\ CASE outRoot = "dir" ->
            pc' = "loop" /\ error' = error /\ outRoot' = outRoot
       [] outRoot = "file" ->
            Raise("FileExistsError") /\ outRoot' = outRoot
       [] outRoot = "absent" ->
            \E ok \in BOOLEAN :
              IF ok THEN pc' = "loop" /\ error' = error /\ outRoot' = "dir"
                    ELSE Raise("OSError") /\ outRoot' = outRoot
  /\ UNCHANGED <<fs, pairs, i, calls>>

\* variant of LoopNext: the list is walked from its end
LoopNext_reversed ==
  /\ pc = "loop"
  /\ IF i > Len(pairs)
       THEN /\ pc' = "done"
            /\ UNCHANGED <<calls, log>>
       ELSE /\ calls' = Append(calls,
                 [inputs |-> <<pairs[Len(pairs) + 1 - i][1], pairs[Len(pairs) + 1 - i][2]>>,
                  export_dir |-> pair_output_dir(pairs[Len(pairs) + 1 - i][1])])
            /\ log' = Append(log, "inference")
            /\ pc' = "infer"
  /\ UNCHANGED <<fs, outRoot, pairs, i, error>>

\* for left_path, right_path in pairs: ... model.inference([...], export_dir=...)
LoopNext ==
  /\ pc = "loop"
  /\ IF i > Len(pairs)
       THEN /\ pc' = "done"
            /\ UNCHANGED <<calls, log>>
       ELSE /\ calls' = Append(calls,
                 [inputs |-> <<pairs[i][1], pairs[i][2]>>,
                  export_dir |-> pair_output_dir(pairs[i][1])])
            /\ log' = Append(log, "inference")
            /\ pc' = "infer"
  /\ UNCHANGED <<fs, outRoot, pairs, i, error>>

\* variant of InferenceReturn: the model is loaded again for the next pair
InferenceReturn_reload ==
  /\ pc = "infer"
  /\ \E ok \in BOOLEAN :
       IF ok THEN /\ log' = Append(log, "return")
                  /\ pc' = "load" /\ i' = i + 1 /\ error' = error
             ELSE /\ log' = Append(log, "raise")
                  /\ Raise("InferenceError") /\ i' = i
  /\ UNCHANGED <<fs, outRoot, pairs, calls>>

\* variant of InferenceReturn: a failure is swallowed and the loop goes on
InferenceReturn_skip ==
  /\ pc = "infer"
  /\ \E ok \in BOOLEAN :
       /\ log' = Append(log, IF ok THEN "return" ELSE "raise")
       /\ pc' = "loop" /\ i' = i + 1 /\ error' = error
  /\ UNCHANGED <<fs, outRoot, pairs, calls>>

\* model.inference returns, or raises and the exception propagates
InferenceReturn ==
  /\ pc = "infer"
  /\ \E ok \in BOOLEAN :
       IF ok THEN /\ log' = Append(log, "return")
                  /\ pc' = "loop" /\ i' = i + 1 /\ error' = error
             ELSE /\ log' = Append(log, "raise")
                  /\ Raise("InferenceError") /\ i' = i
  /\ UNCHANGED <<fs, outRoot, pairs, calls>>

Next ==
  \/ CheckStream1
  \/ CheckStream2
  \/ FindPairs
  \/ CheckPairs
  \/ LoadModel
  \/ ToDevice
  \/ MkdirOutput
  \/ LoopNext
  \/ InferenceReturn

Spec == Init /\ [][Next]_vars

(* ---------------------------------------------------------------------- *)
(* Vocabulary of the properties                                            *)
(* ---------------------------------------------------------------------- *)
\* k is the part of name before its first underscore
HasKey(name, k) ==
  /\ Len(k) < Len(name)
  /\ \A p \in 1..Len(k) : name[p] = k[p] /\ k[p] # "_"
  /\ name[Len(k) + 1] = "_"

\* the entries of S named <anything>_undistorted.jpg
Matching(S) ==
  { n \in S : \E p \in 0..Len(n) : n = SubSeq(n, 1, p) \o Suffix }

\* the timestamp keys of the matching entries of S
KeysIn(S) ==
  { k \in UNION { { SubSeq(n, 1, p) : p \in 0..Len(n) } : n \in Matching(S) } :
      \E n \in Matching(S) : HasKey(n, k) }

CommonKeys == KeysIn(dir1) \cap KeysIn(dir2)

\* lexicographic order of strings by code point
LexLess(a, b) ==
  \E p \in 0..Len(a) :
    /\ p <= Len(b)
    /\ \A q \in 1..p : a[q] = b[q]
    /\ \/ p = Len(a) /\ p < Len(b)
       \/ p < Len(a) /\ p < Len(b) /\ Code(a[p + 1]) < Code(b[p + 1])

Logged(e) == \E p \in DOMAIN log : log[p] = e

CountLogged(e) == Cardinality({ p \in DOMAIN log : log[p] = e })

\* find_stereo_pairs has returned
Found == Logged("find_stereo_pairs")

\* m and n have the same part before the first underscore
SameKey(m, n) ==
  \E p \in 0..(Len(m) - 1) : HasKey(m, SubSeq(m, 1, p)) /\ HasKey(n, SubSeq(m, 1, p))

\* no two matching entries of S have the same timestamp key
UniqueKeys(S) ==
  \A m, n \in Matching(S) : SameKey(m, n) => m = n

(* ---------------------------------------------------------------------- *)
(* C1: find_stereo_pairs returns exactly one pair for every key that      *)
(* occurs among the *_undistorted.jpg files of both directories and no    *)
(* pair for any other key; the left path of a pair is a file of the first *)
(* directory, the right path a file of the second, both with the pair's   *)
(* key.                                                                    *)
(* ---------------------------------------------------------------------- *)
C1_OnePairPerCommonKey ==
  Found =>
    /\ \A k \in CommonKeys :
         Cardinality({ j \in DOMAIN pairs : HasKey(pairs[j][1].name, k) }) = 1
    /\ \A j \in DOMAIN pairs :
         /\ pairs[j][1].dir = "stream_1201-1"
         /\ pairs[j][1].name \in Matching(dir1)
         /\ pairs[j][2].dir = "stream_1201-2"
         /\ pairs[j][2].name \in Matching(dir2)
         /\ \E k \in CommonKeys :
              HasKey(pairs[j][1].name, k) /\ HasKey(pairs[j][2].name, k)

\* two keys in each directory, one of them shared
C1_Witness ==
  /\ Found
  /\ Cardinality(KeysIn(dir1)) = 2
  /\ Cardinality(KeysIn(dir2)) = 2
  /\ Cardinality(CommonKeys) = 1
  /\ Len(pairs) = 1

(* ---------------------------------------------------------------------- *)
(* C2: the returned list is in strictly ascending lexicographic order of  *)
(* the timestamp keys, not numeric order: "10" comes before "2".          *)
(* ---------------------------------------------------------------------- *)
C2_AscendingStringOrder ==
  Found =>
    \A a, b \in DOMAIN pairs :
      a < b =>
        \E ka, kb \in CommonKeys :
          /\ HasKey(pairs[a][1].name, ka)
          /\ HasKey(pairs[b][1].name, kb)
          /\ LexLess(ka, kb)
          /\ ~(ka = <<"2">> /\ kb = <<"1", "0">>)

C2_Witness ==
  /\ Found
  /\ Len(pairs) = 2
  /\ HasKey(pairs[1][1].name, <<"1", "0">>)
  /\ HasKey(pairs[2][1].name, <<"2">>)

(* ---------------------------------------------------------------------- *)
(* C3: with a stream directory missing the run ends in a directory-not-   *)
(* found error before pair finding, model loading, output-directory       *)
(* creation or inference; stream 1 is checked first, so with both missing *)
(* the error is the stream-1 one.                                          *)
(* ---------------------------------------------------------------------- *)
C3_MissingDirectoryAborts ==
  (~stream1_exists \/ ~stream2_exists) =>
    /\ pc \in {"check1", "check2", "error"}
    /\ pc = "error" =>
         error = IF ~stream1_exists THEN "Stream1NotFound" ELSE "Stream2NotFound"
    /\ ~Logged("find_stereo_pairs")
    /\ ~Logged("from_pretrained")
    /\ ~Logged("mkdir")
    /\ ~Logged("inference")
    /\ calls = <<>>

C3_Witness ==
  /\ ~stream1_exists
  /\ ~stream2_exists
  /\ pc = "error"
  /\ error = "Stream1NotFound"

(* ---------------------------------------------------------------------- *)
(* C4: with both directories present and no common key the pair finder    *)
(* returns the empty list and the run ends normally, with no inference    *)
(* call and no output directory created.                                   *)
(* ---------------------------------------------------------------------- *)
C4_NoPairsIsNormalEnd ==
  (stream1_exists /\ stream2_exists /\ CommonKeys = {}) =>
    /\ Found => pairs = <<>>
    /\ pc \in {"check1", "check2", "find", "checkpairs", "done"}
    /\ error = "none"
    /\ calls = <<>>
    /\ ~Logged("inference")
    /\ ~Logged("mkdir")

\* matching files on both sides, but no key in common
C4_Witness ==
  /\ pc = "done"
  /\ KeysIn(dir1) # {}
  /\ KeysIn(dir2) # {}
  /\ CommonKeys = {}

(* ---------------------------------------------------------------------- *)
(* C5 as stated: for every number N of pairs found, a run that completes  *)
(* without error has made exactly 1 model load call and exactly N         *)
(* inference calls.  Fails for N = 0: the run returns before loading.     *)
(* ---------------------------------------------------------------------- *)
C5_Original ==
  pc = "done" =>
    /\ CountLogged("from_pretrained") = 1
    /\ Len(calls) = Len(pairs)

(* ---------------------------------------------------------------------- *)
(* C5 amended: a run that completes without error with N >= 1 pairs found *)
(* has made exactly 1 model load call and exactly N inference calls; with *)
(* N = 0 it has made no load call and no inference call.                  *)
(* ---------------------------------------------------------------------- *)
C5_OneLoadWhenPairsExist ==
  pc = "done" =>
    /\ CountLogged("inference") = Len(pairs)
    /\ Len(calls) = Len(pairs)
    /\ CountLogged("from_pretrained") = IF Len(pairs) >= 1 THEN 1 ELSE 0

C5_Witness ==
  /\ pc = "done"
  /\ Len(pairs) = 2
  /\ CountLogged("from_pretrained") = 1
  /\ CountLogged("inference") = 2

(* ---------------------------------------------------------------------- *)
(* C6: in a run that completes without error every pair of the list gets  *)
(* exactly one inference invocation, with exactly two input paths (left,  *)
(* then right) and the export directory <output root>/pair_<key> of the   *)
(* pair's key; different pairs get different export directories.          *)
(* ---------------------------------------------------------------------- *)
C6_OneInvocationPerPair ==
  pc = "done" =>
    /\ \A j \in DOMAIN pairs :
         /\ Cardinality({ c \in DOMAIN calls : calls[c].inputs[1] = pairs[j][1] }) = 1
         /\ j \in DOMAIN calls
         /\ Len(calls[j].inputs) = 2
         /\ calls[j].inputs[1] = pairs[j][1]
         /\ calls[j].inputs[2] = pairs[j][2]
         /\ calls[j].export_dir.parent = "output_dir"
         /\ \E k \in CommonKeys :
              /\ HasKey(pairs[j][1].name, k)
              /\ calls[j].export_dir.name = <<"p", "a", "i", "r", "_">> \o k
    /\ \A c, d \in DOMAIN calls :
         c # d => calls[c].export_dir # calls[d].export_dir

C6_Witness ==
  /\ pc = "done"
  /\ Len(calls) = 2
  /\ calls[1].export_dir.name = <<"p", "a", "i", "r", "_", "1", "0">>
  /\ calls[2].export_dir.name = <<"p", "a", "i", "r", "_", "2">>

(* ---------------------------------------------------------------------- *)
(* C7: fail-fast.  When the inference call for the pair at position i     *)
(* fails, the run is in the error state, no further step is taken (no     *)
(* retry, no call for a later pair), and the pairs up to i have each been *)
(* invoked exactly once.                                                   *)
(* ---------------------------------------------------------------------- *)
C7_FailFast ==
  \A p \in DOMAIN log :
    log[p] = "raise" =>
      /\ p = Len(log)
      /\ pc = "error"
      /\ error = "InferenceError"
      /\ ~ENABLED Next
      /\ Len(calls) = i
      /\ \A j \in 1..i :
           /\ calls[j].inputs = pairs[j]
           /\ Cardinality({ c \in DOMAIN calls : calls[c].inputs = pairs[j] }) = 1

\* the first of two pairs failed: the second was never invoked
C7_Witness ==
  /\ Logged("raise")
  /\ Len(pairs) = 2
  /\ Len(calls) = 1

(* ---------------------------------------------------------------------- *)
(* C8 as stated: for fixed sets of file names, find_stereo_pairs returns  *)
(* the same list whatever order the directories are enumerated in, also   *)
(* when several files of one directory share a timestamp key.             *)
(* ---------------------------------------------------------------------- *)
C8_Original ==
  Found =>
    \A listing1 \in Listings(dir1), listing2 \in Listings(dir2) :
      find_stereo_pairs(listing1, listing2) = pairs

(* ---------------------------------------------------------------------- *)
(* C8 amended: when no two matching files of one directory share a        *)
(* timestamp key, find_stereo_pairs returns the same list whatever order  *)
(* the directories are enumerated in; in every case the keys of the       *)
(* returned list do not depend on the enumeration order, and no step of   *)
(* the run changes either directory.                                       *)
(* ---------------------------------------------------------------------- *)
C8_SameListForUniqueKeys ==
  /\ [](Found =>
         LET unique == UniqueKeys(dir1) /\ UniqueKeys(dir2)
         IN  \A listing1 \in Listings(dir1), listing2 \in Listings(dir2) :
               LET other == find_stereo_pairs(listing1, listing2)
               IN  /\ unique => other = pairs
                   /\ Len(other) = Len(pairs)
                   /\ \A j \in DOMAIN pairs :
                        SameKey(other[j][1].name, pairs[j][1].name))
  /\ [][dir1' = dir1 /\ dir2' = dir2 /\ stream1_exists' = stream1_exists
          /\ stream2_exists' = stream2_exists]_vars

\* two pairs found in directories of unique keys, listed in two orders
C8_Witness ==
  /\ Found
  /\ UniqueKeys(dir1) /\ UniqueKeys(dir2)
  /\ Cardinality(Listings(dir1)) = 2
  /\ Cardinality(Listings(dir2)) = 2
  /\ Len(pairs) = 2

(* ---------------------------------------------------------------------- *)
(* C9: the run follows the order validate directories, find pairs, load   *)
(* model, create output root, inference per pair; inference calls are     *)
(* made one at a time in the order of the pair list (ascending keys), a   *)
(* call starting only after the previous one has returned.                *)
(* ---------------------------------------------------------------------- *)
StepOrder == <<"exists1", "exists2", "find_stereo_pairs", "from_pretrained", "to", "mkdir">>

C9_FixedStepOrder ==
  /\ \A p \in DOMAIN log :
       IF p <= Len(StepOrder) THEN log[p] = StepOrder[p]
       ELSE IF (p - Len(StepOrder)) % 2 = 1 THEN log[p] = "inference"
       ELSE /\ log[p] \in {"return", "raise"}
            /\ log[p] = "raise" => p = Len(log)
  /\ Len(calls) = CountLogged("inference")
  /\ Len(calls) - (CountLogged("return") + CountLogged("raise")) \in {0, 1}
  /\ Len(calls) <= Len(pairs)
  /\ \A j \in DOMAIN calls : calls[j].inputs = pairs[j]
  /\ \A a, b \in DOMAIN calls :
       a < b => \E ka, kb \in CommonKeys :
                  /\ HasKey(calls[a].inputs[1].name, ka)
                  /\ HasKey(calls[b].inputs[1].name, kb)
                  /\ LexLess(ka, kb)

\* the second call is in progress, the first has returned
C9_Witness ==
  /\ pc = "infer"
  /\ Len(calls) = 2
  /\ CountLogged("return") = 1

(* ---------------------------------------------------------------------- *)
(* C10: when loading the model or moving it to the device fails, the run  *)
(* is in the error state with no inference call made and the output root  *)
(* not created: the output root changes only in the mkdir step, which     *)
(* follows the loading, and only from absent to a directory; an output    *)
(* root that already exists is left as it is.                              *)
(* ---------------------------------------------------------------------- *)
C10_LoadFailureCreatesNothing ==
  /\ [](error \in {"ModelLoadError", "DeviceError"} =>
         /\ pc = "error"
         /\ Len(pairs) >= 1
         /\ calls = <<>>
         /\ ~Logged("inference")
         /\ ~Logged("mkdir")
         /\ ~ENABLED Next)
  /\ [][outRoot' # outRoot =>
          /\ pc = "mkdir"
          /\ Logged("from_pretrained") /\ Logged("to")
          /\ outRoot = "absent"
          /\ outRoot' = "dir"]_vars

C10_Witness ==
  /\ error = "ModelLoadError"
  /\ pc = "error"
  /\ outRoot = "absent"
  /\ Len(pairs) >= 1

====
